---- MODULE Spec2Model ----
(***************************************************************************)
(* Model of ros/src/tl_detector/tl_detector.py (class TLDetector).         *)
(*                                                                         *)
(* The node caches the latest pose, route (waypoints), traffic-light list  *)
(* and camera frame, and on every camera frame runs one estimation cycle   *)
(* (image_cb): process_traffic_lights computes a raw (waypoint, colour)    *)
(* pair, and the debounce code of image_cb turns it into the value         *)
(* published on /traffic_waypoint.                                         *)
(*                                                                         *)
(* Python lists are 0-based; sequences here are 1-based, so the Python     *)
(* index i denotes element i+1 of a sequence.  A Python value that may be  *)
(* None is a sequence of length at most one: <<>> is None, <<v>> is v.     *)
(***************************************************************************)
EXTENDS Integers, Sequences, FiniteSets, TLC

(* ---------------------------------------------------------------------- *)
(* Constants of the program and bounds of the model                        *)
(* ---------------------------------------------------------------------- *)

STATE_COUNT_THRESHOLD == 3

\* state_count grows without bound in the code; cycles that would push it
\* beyond MaxCount are not explored.
MaxCount == 5

\* direct calls of the geometry functions take coordinates in
\* -GeoMax..GeoMax
GeoMax == 1

\* the colour ids of styx_msgs/TrafficLight, by name
RED == "RED"
YELLOW == "YELLOW"
GREEN == "GREEN"
UNKNOWN == "UNKNOWN"
Colors == {RED, YELLOW, GREEN, UNKNOWN}

None == <<>>
Some(v) == <<v>>

(* ---------------------------------------------------------------------- *)
(* Inputs the callbacks are fed with                                       *)
(* ---------------------------------------------------------------------- *)

\* A pose: position (x, y) and orientation.  The orientation is kept as the
\* yaw that euler_from_quaternion extracts from it: "E" is yaw 0 (heading
\* +x), "W" is yaw pi (heading -x).
P(x, y, yaw) == [x |-> x, y |-> y, yaw |-> yaw]

\* the routes the route feed delivers (Lane.waypoints)
R4 == << P(0, 0, "E"), P(1, 0, "E"), P(2, 0, "E"), P(3, 0, "E") >>
RShort == << P(0, 0, "E") >>
RPast == << P(3, 0, "E"), P(4, 0, "E") >>
RBack == << P(1, 0, "W"), P(0, 0, "W") >>
RTie == << P(0, 0, "E"), P(3, 0, "W"), P(1, 0, "E") >>
RAbeam == << P(0, 0, "E"), P(2, 0, "W") >>
RouteFeed == { <<>>, R4, RShort, RPast, RBack, RTie, RAbeam }

\* the poses the pose feed delivers
PoseFeed == { P(0, 0, "E"), P(3, 0, "E") }

\* the light lists the traffic-light feed delivers: each light is given by
\* the ground-truth colour it carries
LightFeed == { <<>>, <<GREEN>>, <<RED, GREEN>>, <<GREEN, RED, RED>> }

\* the stop-line tables the configuration may hold (stop_line_positions)
T1 == << <<2, 0>> >>
T3 == << <<-1, 0>>, <<5, 0>>, <<2, 0>> >>
TTie == << <<2, 1>>, <<2, -1>> >>
StopLineTables == { T1, T3, TTie }

\* a camera frame is given by the verdict the classifier returns for it
FrameFeed == Colors

(* ---------------------------------------------------------------------- *)
(* State                                                                   *)
(* ---------------------------------------------------------------------- *)

VARIABLES
    pose,          \* self.pose: None or the latest pose
    waypoints,     \* self.waypoints: None or the latest route
    lights,        \* self.lights
    config,        \* self.config['stop_line_positions']
    has_image,     \* self.has_image (first assigned by image_cb)
    camera_image,  \* self.camera_image: None or the latest frame
    state,         \* self.state
    last_state,    \* self.last_state
    last_wp,       \* self.last_wp
    state_count,   \* self.state_count
    cycle,         \* what the handler that ran last did (observation only)
    lastPub,       \* None or the value published last (observation only)
    run,           \* the current run of equal raw colours (observation only)
    scen,          \* frames fed in the convergence scenario (observation only)
    rt,            \* progress of a RED-then-GREEN round trip (observation only)
    pc,            \* the line image_cb has reached when its steps interleave
    loc,           \* the local values of image_cb when its steps interleave
    fn             \* the latest direct call of a geometry function

vars == << pose, waypoints, lights, config, has_image, camera_image,
           state, last_state, last_wp, state_count, cycle, lastPub, run, scen, rt,
           pc, loc, fn >>

cached == << pose, waypoints, lights, config, has_image, camera_image >>
debounce == << state, last_state, last_wp, state_count >>

(* ---------------------------------------------------------------------- *)
(* Geometry (pure functions)                                               *)
(* ---------------------------------------------------------------------- *)

\* math.cos(yaw) and math.sin(yaw) in double precision, for the two yaws
\* of the model.  cos(0) = 1 and sin(0) = 0 exactly; for the yaw of a pose
\* heading -x, atan2(0, -1) = pi, cos(pi) = -1 exactly but sin(pi) =
\* 1.2246e-16, not 0.  Values are counted in parts of 1/Unit: Sin("W") is
\* one part, and Unit exceeds every coordinate difference of the model, so
\* the sum in is_ahead_of has the sign of the double it stands for.
Unit == 1000
Cos(yaw) == IF yaw = "E" THEN Unit ELSE -Unit
Sin(yaw) == IF yaw = "E" THEN 0 ELSE 1

\* calculate_distance returns sqrt(dx^2 + dy^2); the code only compares
\* distances with <, and sqrt is strictly increasing on the integer
\* coordinates of the model, so the square is kept.
calculate_distance(x1, x2, y1, y2) == (x1 - x2) * (x1 - x2) + (y1 - y2) * (y1 - y2)

\* is_ahead_of with >= for > at line 153
is_ahead_ofOrAbeam(p, x, y) == ((x - p.x) * Cos(p.yaw) + (y - p.y) * Sin(p.yaw)) >= 0

is_ahead_of(p, x, y) == ((x - p.x) * Cos(p.yaw) + (y - p.y) * Sin(p.yaw)) > 0

\* The loop body of get_closest_waypoint_idx reads wp.pose.pose.positions,
\* an attribute a Pose does not have, so the first iteration raises
\* AttributeError; over an empty sequence the loop does not run and the
\* initial index -1 is returned.
get_closest_waypoint_idx(p, wps) ==
    IF Len(wps) = 0
    THEN [raise |-> "none", index |-> -1]
    ELSE [raise |-> "AttributeError", index |-> -1]

\* the classifier: a frame is identified with its verdict
get_classification(frame) == frame

\* get_light_state as it would be if it returned the colour the light
\* observation carries
get_light_stateGroundTruth(light, hasimg, img) == light

get_light_state(light, hasimg, img) ==
    IF ~hasimg THEN UNKNOWN ELSE get_classification(img[1])

(* ---------------------------------------------------------------------- *)
(* process_traffic_lights                                                  *)
(* ---------------------------------------------------------------------- *)

\* lines 181-188 without the test of is_ahead_of
RECURSIVE ClosestStopLineAnywhere(_, _, _, _, _)
ClosestStopLineAnywhere(car, stop_lines, i, dist_min, best) ==
    IF i > Len(stop_lines) THEN best
    ELSE LET sl == stop_lines[i]
             dist == calculate_distance(car.x, sl[1], car.y, sl[2])
         IN  IF best = -1 \/ dist < dist_min
             THEN ClosestStopLineAnywhere(car, stop_lines, i + 1, dist, i - 1)
             ELSE ClosestStopLineAnywhere(car, stop_lines, i + 1, dist_min, best)

\* Loop of lines 181-188: index (0-based) of the closest stop line ahead of
\* car, -1 if none.  dist_min starts at infinity; it is still infinity
\* exactly while best = -1.
RECURSIVE ClosestStopLine(_, _, _, _, _)
ClosestStopLine(car, stop_lines, i, dist_min, best) ==
    IF i > Len(stop_lines) THEN best
    ELSE LET sl == stop_lines[i]
             dist == calculate_distance(car.x, sl[1], car.y, sl[2])
         IN  IF is_ahead_of(car, sl[1], sl[2]) /\ (best = -1 \/ dist < dist_min)
             THEN ClosestStopLine(car, stop_lines, i + 1, dist, i - 1)
             ELSE ClosestStopLine(car, stop_lines, i + 1, dist_min, best)

\* lines 194-200 with <= for < at line 198
RECURSIVE ClosestWaypointBeforeLast(_, _, _, _, _)
ClosestWaypointBeforeLast(wps, sl, i, dist_min, light_wp) ==
    IF i > Len(wps) THEN light_wp
    ELSE LET wp == wps[i]
             dist == calculate_distance(wp.x, sl[1], wp.y, sl[2])
         IN  IF is_ahead_of(wp, sl[1], sl[2]) /\ (light_wp = -1 \/ dist <= dist_min)
             THEN ClosestWaypointBeforeLast(wps, sl, i + 1, dist, i - 1)
             ELSE ClosestWaypointBeforeLast(wps, sl, i + 1, dist_min, light_wp)

\* Loop of lines 194-200: index (0-based) of the closest waypoint that has
\* the stop line sl ahead of it, -1 if none.
RECURSIVE ClosestWaypointBefore(_, _, _, _, _)
ClosestWaypointBefore(wps, sl, i, dist_min, light_wp) ==
    IF i > Len(wps) THEN light_wp
    ELSE LET wp == wps[i]
             dist == calculate_distance(wp.x, sl[1], wp.y, sl[2])
         IN  IF is_ahead_of(wp, sl[1], sl[2]) /\ (light_wp = -1 \/ dist < dist_min)
             THEN ClosestWaypointBefore(wps, sl, i + 1, dist, i - 1)
             ELSE ClosestWaypointBefore(wps, sl, i + 1, dist_min, light_wp)

\* what one call of process_traffic_lights did:
\*   raise   "none", or the exception that left the call
\*   stage   how far the call went: "nodata" (lines 167-170), "car" (the
\*           car's waypoint lookup), "noneAhead" (line 204), "light" (191-203)
\*   closest closest_stop_line_idx, -1 if not set
Result(raise, stage, closest, wp, st) ==
    [raise |-> raise, stage |-> stage, closest |-> closest, wp |-> wp, state |-> st]

\* line 204 as it would be if the classifier's verdict were passed on
NoneAheadClassified(hasimg, img) ==
    Result("none", "noneAhead", -1, -1, get_light_state(<<>>, hasimg, img))

\* line 204
NoneAhead(hasimg, img) == Result("none", "noneAhead", -1, -1, UNKNOWN)

\* lines 191-203
LightAhead(wps, lts, stop_lines, closest, hasimg, img) ==
    IF closest >= Len(lts)
    THEN Result("IndexError", "light", closest, -1, UNKNOWN)
    ELSE Result("none", "light", closest,
                ClosestWaypointBefore(wps, stop_lines[closest + 1], 1, 0, -1),
                get_light_state(lts[closest + 1], hasimg, img))

\* lines 167-170 without the test of self.lights
MissingWaypointsOnly(wpts, lts) == wpts = None \/ wpts = Some(<<>>)

\* lines 167-170: "not self.waypoints" or "not self.lights"
MissingData(wpts, lts) == wpts = None \/ wpts = Some(<<>>) \/ lts = <<>>

process_traffic_lights(ps, wpts, lts, stop_lines, hasimg, img) ==
    IF MissingData(wpts, lts) THEN Result("none", "nodata", -1, -1, UNKNOWN)
    ELSE LET wps == wpts[1]
             idx == IF ps # None THEN get_closest_waypoint_idx(ps[1], wps)
                                 ELSE [raise |-> "none", index |-> 0]
         IN  IF idx.raise # "none"
             THEN Result(idx.raise, "car", -1, -1, UNKNOWN)
             ELSE LET car_position == wps[idx.index + 1]
                      closest == ClosestStopLine(car_position, stop_lines, 1, 0, -1)
                  IN  IF closest >= 0
                      THEN LightAhead(wps, lts, stop_lines, closest, hasimg, img)
                      ELSE NoneAhead(hasimg, img)


(* ---------------------------------------------------------------------- *)
(* Observation of the handlers                                             *)
(* ---------------------------------------------------------------------- *)

\* cycle describes the handler that ran last.  For image_cb: ran is TRUE,
\* res is what process_traffic_lights did, branch is the branch of lines
\* 85-94 that ran ("none" if the call raised before), pubs the values
\* handed to upcoming_red_light_pub.publish, in order, entry the values
\* of self.state, self.state_count and self.last_wp when line 85 was
\* reached.
NoResult == Result("none", "nodata", -1, -1, UNKNOWN)
NoEntry == [state |-> UNKNOWN, state_count |-> 0, last_wp |-> -1]
NoCycle == [ran |-> FALSE, res |-> NoResult, branch |-> "none", pubs |-> <<>>,
            entry |-> NoEntry]

\* the local values of an image_cb call in progress: the values of
\* self.waypoints and of self.lights it has read so far, in order, the
\* index and pose of the car's waypoint and closest_stop_line_idx
NoLoc == [wreads |-> <<>>, lreads |-> <<>>, idx |-> 0, car |-> P(0, 0, "E"),
          closest |-> -1]

\* no geometry function has been called directly
NoCall == [op |-> "none", p |-> P(0, 0, "E"), x |-> 0, y |-> 0, wps |-> <<>>,
           ahead |-> FALSE, idx |-> [raise |-> "none", index |-> -1]]

\* run describes the latest run of estimation cycles with one raw colour
\* that began with a cycle whose raw colour differed from self.state:
\* its colour, the number of its cycles so far, self.last_wp and lastPub
\* when it began, and how often the commit branch ran in it.  len = 0: no
\* such run has begun.
NoRun == [color |-> UNKNOWN, len |-> 0, base_wp |-> -1, base_pub |-> None, commits |-> 0]

NextRun(raw_state, branch) ==
    IF branch = "change"
    THEN [color |-> raw_state, len |-> 1, base_wp |-> last_wp,
          base_pub |-> lastPub, commits |-> 0]
    ELSE IF run.len = 0 THEN run
    ELSE [run EXCEPT !.len = @ + 1,
                     !.commits = @ + (IF branch = "commit" THEN 1 ELSE 0)]

\* rt follows a round trip: a run of STATE_COUNT_THRESHOLD cycles with raw
\* (wp, RED) that began with a change to RED, immediately followed by
\* STATE_COUNT_THRESHOLD cycles with raw colour GREEN.  n is the number of
\* cycles of the round trip seen so far, mid the value published last when
\* the RED cycles were over, ok whether every value published by the
\* cycles of the round trip was wp or -1.
NoRoundTrip == [n |-> 0, wp |-> -1, mid |-> None, ok |-> TRUE]

PubsWithin(pubs, wp) == \A i \in 1..Len(pubs) : pubs[i] \in {wp, -1}

NextRoundTrip(res, branch, pubs, pub) ==
    IF res.state = RED /\ branch = "change"
    THEN [n |-> 1, wp |-> res.wp, mid |-> None, ok |-> PubsWithin(pubs, res.wp)]
    ELSE IF /\ rt.n >= 1 /\ rt.n < STATE_COUNT_THRESHOLD
            /\ res.state = RED /\ res.wp = rt.wp
    THEN [rt EXCEPT !.n = @ + 1,
                    !.ok = @ /\ PubsWithin(pubs, rt.wp),
                    !.mid = IF rt.n + 1 = STATE_COUNT_THRESHOLD THEN pub ELSE None]
    ELSE IF /\ rt.n >= STATE_COUNT_THRESHOLD /\ rt.n < 2 * STATE_COUNT_THRESHOLD
            /\ res.state = GREEN
    THEN [rt EXCEPT !.n = @ + 1, !.ok = @ /\ PubsWithin(pubs, rt.wp)]
    ELSE NoRoundTrip

\* The scenario of the end-to-end example: route R4, one stop line at
\* (2,0), one observed light, the car at (0,0) heading +x.
Scenario(ps, wpts, lts, stop_lines) ==
    /\ wpts = Some(R4)
    /\ stop_lines = T1
    /\ Len(lts) = 1
    /\ ps = Some(P(0, 0, "E"))

\* scen counts the RED frames fed in a row while the scenario is in place,
\* up to STATE_COUNT_THRESHOLD + 1.
ScenCap == STATE_COUNT_THRESHOLD + 1

(* ---------------------------------------------------------------------- *)
(* The node                                                                *)
(* ---------------------------------------------------------------------- *)

Init ==
    /\ pose = None
    /\ waypoints = None
    /\ lights = <<>>
    /\ config \in StopLineTables
    /\ has_image = FALSE
    /\ camera_image = None
    /\ state = UNKNOWN
    /\ last_state = UNKNOWN
    /\ last_wp = -1
    /\ state_count = 0
    /\ cycle = NoCycle
    /\ lastPub = None
    /\ run = NoRun
    /\ scen = 0
    /\ rt = NoRoundTrip
    /\ pc = "idle"
    /\ loc = NoLoc
    /\ fn = NoCall

pose_cb(msg) ==
    /\ pose' = Some(msg)
    /\ cycle' = NoCycle
    /\ scen' = IF Scenario(pose', waypoints, lights, config) THEN scen ELSE 0
    /\ UNCHANGED << waypoints, lights, config, has_image, camera_image,
                    debounce, lastPub, run, rt, pc, loc, fn >>

\* waypoints_cb as it would be if a new route restarted the filter
waypoints_cbRestart(msg) ==
    /\ waypoints' = Some(msg)
    /\ state' = UNKNOWN
    /\ last_state' = UNKNOWN
    /\ last_wp' = -1
    /\ state_count' = 0
    /\ cycle' = NoCycle
    /\ scen' = IF Scenario(pose, waypoints', lights, config) THEN scen ELSE 0
    /\ UNCHANGED << pose, lights, config, has_image, camera_image,
                    lastPub, run, rt, pc, loc, fn >>

waypoints_cb(msg) ==
    /\ waypoints' = Some(msg)
    /\ cycle' = NoCycle
    /\ scen' = IF Scenario(pose, waypoints', lights, config) THEN scen ELSE 0
    /\ UNCHANGED << pose, lights, config, has_image, camera_image,
                    debounce, lastPub, run, rt, pc, loc, fn >>

traffic_cb(msg) ==
    /\ lights' = msg
    /\ cycle' = NoCycle
    /\ scen' = IF Scenario(pose, waypoints, lights', config) THEN scen ELSE 0
    /\ UNCHANGED << pose, waypoints, config, has_image, camera_image,
                    debounce, lastPub, run, rt, pc, loc, fn >>

\* line 90 without the test for RED
CommitWpAnyColor(light_wp, st) == light_wp

\* line 90: the waypoint a commit stores and publishes
CommitWp(light_wp, st) == IF st = RED THEN light_wp ELSE -1

\* lines 85-94 with a commit as soon as the colour has been seen twice
BranchEarly(st) ==
    IF state # st THEN "change"
    ELSE IF state_count >= STATE_COUNT_THRESHOLD - 2 THEN "commit"
    ELSE "hold"

\* lines 85-94: the branch taken for the raw colour st
Branch(st) ==
    IF state # st THEN "change"
    ELSE IF state_count >= STATE_COUNT_THRESHOLD THEN "commit"
    ELSE "hold"

\* lines 85-94 with the commit publishing self.last_wp before line 91
\* has stored the new value
PublishedBeforeStore(branch, light_wp, st) ==
    IF branch = "change" THEN <<>> ELSE << last_wp >>

\* lines 85-94: the values published by the branch
Published(branch, light_wp, st) ==
    IF branch = "change" THEN <<>>
    ELSE IF branch = "commit" THEN << CommitWp(light_wp, st) >>
    ELSE << last_wp >>

\* lines 85-95, or the exception leaving image_cb: what the handler does
\* once process_traffic_lights is over
EndCycle(res) ==
    LET branch == Branch(res.state)
        pubs == Published(branch, res.wp, res.state)
        entry == [state |-> state, state_count |-> state_count, last_wp |-> last_wp]
    IN  IF res.raise # "none"
        THEN /\ cycle' = [ran |-> TRUE, res |-> res, branch |-> "none", pubs |-> <<>>,
                          entry |-> entry]
             /\ rt' = NoRoundTrip
             /\ UNCHANGED << debounce, lastPub, run >>
        ELSE /\ branch # "change" => state_count < MaxCount
             /\ state' = res.state
             /\ state_count' = (IF branch = "change" THEN 0 ELSE state_count) + 1
             /\ last_state' = IF branch = "commit" THEN state ELSE last_state
             /\ last_wp' = IF branch = "commit" THEN CommitWp(res.wp, res.state)
                                                ELSE last_wp
             /\ cycle' = [ran |-> TRUE, res |-> res, branch |-> branch, pubs |-> pubs,
                          entry |-> entry]
             /\ lastPub' = IF pubs = <<>> THEN lastPub ELSE Some(pubs[Len(pubs)])
             /\ run' = NextRun(res.state, branch)
             /\ rt' = NextRoundTrip(res, branch, pubs, lastPub')

\* the frames fed in the convergence scenario, after the frame msg
NextScen(msg) ==
    IF Scenario(pose, waypoints, lights, config) /\ msg = RED
    THEN (IF scen < ScenCap THEN scen + 1 ELSE scen)
    ELSE 0

\* image_cb run as one step, no other callback in between
image_cb(msg) ==
    /\ has_image' = TRUE
    /\ camera_image' = Some(msg)
    /\ scen' = NextScen(msg)
    /\ UNCHANGED << pose, waypoints, lights, config, pc, loc, fn >>
    /\ EndCycle(process_traffic_lights(pose, waypoints, lights, config, TRUE, Some(msg)))

Next ==
    \/ \E msg \in PoseFeed : pose_cb(msg)
    \/ \E msg \in RouteFeed : waypoints_cb(msg)
    \/ \E msg \in LightFeed : traffic_cb(msg)
    \/ \E msg \in FrameFeed : image_cb(msg)

Spec == Init /\ [][Next]_vars

(* ---------------------------------------------------------------------- *)
(* image_cb interleaved with the other callbacks                           *)
(* ---------------------------------------------------------------------- *)

\* rospy runs the callback of each subscription on a thread of its own,
\* and the handlers take no lock: pose_cb, waypoints_cb and traffic_cb can
\* run between any two reads image_cb makes of self.pose, self.waypoints
\* and self.lights.  image_cb is cut at those reads; pc names the line of
\* the next one.  One image_cb runs at a time (one subscription).

\* image_cb goes on at line l
Goto(l, newloc) ==
    /\ pc' = l
    /\ loc' = newloc
    /\ UNCHANGED << cached, debounce, cycle, lastPub, run, scen, rt, fn >>

\* process_traffic_lights is over (or has raised): lines 85-95 follow
Return(res, newloc) ==
    /\ pc' = "idle"
    /\ loc' = newloc
    /\ EndCycle(res)
    /\ UNCHANGED << cached, scen, fn >>

ReadWaypoints == [loc EXCEPT !.wreads = Append(@, waypoints)]
ReadLights == [loc EXCEPT !.lreads = Append(@, lights)]

\* lines 75-76
ImgBegin(msg) ==
    /\ pc = "idle"
    /\ has_image' = TRUE
    /\ camera_image' = Some(msg)
    /\ scen' = NextScen(msg)
    /\ pc' = "l167"
    /\ loc' = NoLoc
    /\ cycle' = NoCycle
    /\ UNCHANGED << pose, waypoints, lights, config, debounce, lastPub, run, rt, fn >>

\* lines 167-168: "if not self.waypoints"
ImgCheckWaypoints ==
    /\ pc = "l167"
    /\ IF waypoints = None \/ waypoints = Some(<<>>)
       THEN Return(Result("none", "nodata", -1, -1, UNKNOWN), ReadWaypoints)
       ELSE Goto("l169", ReadWaypoints)

\* lines 169-170: "if not self.lights"
ImgCheckLights ==
    /\ pc = "l169"
    /\ IF lights = <<>>
       THEN Return(Result("none", "nodata", -1, -1, UNKNOWN), ReadLights)
       ELSE Goto("l175", ReadLights)

\* lines 174-176: the index of the car's waypoint; get_closest_waypoint_idx
\* reads self.waypoints again (line 113)
ImgCarIndex ==
    /\ pc = "l175"
    /\ IF pose = None
       THEN Goto("l177", [loc EXCEPT !.idx = 0])
       ELSE LET r == get_closest_waypoint_idx(pose[1], waypoints[1])
            IN  IF r.raise # "none"
                THEN Return(Result(r.raise, "car", -1, -1, UNKNOWN), ReadWaypoints)
                ELSE Goto("l177", [ReadWaypoints EXCEPT !.idx = r.index])

\* lines 177-188: self.waypoints[car_position_idx], a Python index that is
\* 0 or -1 (the last element), and the scan of the stop lines
ImgCarPosition ==
    /\ pc = "l177"
    /\ LET wps == waypoints[1]
       IN  IF Len(wps) = 0
           THEN Return(Result("IndexError", "car", -1, -1, UNKNOWN), ReadWaypoints)
           ELSE LET car == IF loc.idx = -1 THEN wps[Len(wps)] ELSE wps[loc.idx + 1]
                    closest == ClosestStopLine(car, config, 1, 0, -1)
                    l == [ReadWaypoints EXCEPT !.car = car, !.closest = closest]
                IN  IF closest >= 0
                    THEN Goto("l193", l)
                    ELSE Return(NoneAhead(has_image, camera_image), l)

\* line 193: self.lights[closest_stop_line_idx]
ImgLight ==
    /\ pc = "l193"
    /\ IF loc.closest >= Len(lights)
       THEN Return(Result("IndexError", "light", loc.closest, -1, UNKNOWN), ReadLights)
       ELSE Goto("l195", ReadLights)

\* lines 194-203: the scan of self.waypoints and the classification
ImgScan ==
    /\ pc = "l195"
    /\ LET light == loc.lreads[Len(loc.lreads)][loc.closest + 1]
       IN  Return(Result("none", "light", loc.closest,
                         ClosestWaypointBefore(waypoints[1], config[loc.closest + 1], 1, 0, -1),
                         get_light_state(light, has_image, camera_image)),
                  ReadWaypoints)

\* the feeds of the interleaved runs: a route, a route past the stop line
\* (2,0) and the empty route; one light or none; one pose
RouteFeedC == { <<>>, R4, RPast }
LightFeedC == { <<>>, <<GREEN>> }
PoseFeedC == { P(0, 0, "E") }

NextC ==
    \/ \E msg \in PoseFeedC : pose_cb(msg)
    \/ \E msg \in RouteFeedC : waypoints_cb(msg)
    \/ \E msg \in LightFeedC : traffic_cb(msg)
    \/ \E msg \in FrameFeed : ImgBegin(msg)
    \/ ImgCheckWaypoints
    \/ ImgCheckLights
    \/ ImgCarIndex
    \/ ImgCarPosition
    \/ ImgLight
    \/ ImgScan

SpecC == Init /\ [][NextC]_vars

(* ---------------------------------------------------------------------- *)
(* The geometry functions called directly                                  *)
(* ---------------------------------------------------------------------- *)

GeoCoords == (-GeoMax)..GeoMax
GeoPoses == { P(x, y, yaw) : x \in GeoCoords, y \in GeoCoords, yaw \in {"E", "W"} }

call_is_ahead_of(p, x, y) ==
    /\ fn' = [NoCall EXCEPT !.op = "is_ahead_of", !.p = p, !.x = x, !.y = y,
                            !.ahead = is_ahead_of(p, x, y)]
    /\ UNCHANGED << cached, debounce, cycle, lastPub, run, scen, rt, pc, loc >>

call_get_closest_waypoint_idx(p, wps) ==
    /\ fn' = [NoCall EXCEPT !.op = "get_closest_waypoint_idx", !.p = p, !.wps = wps,
                            !.idx = get_closest_waypoint_idx(p, wps)]
    /\ UNCHANGED << cached, debounce, cycle, lastPub, run, scen, rt, pc, loc >>

NextFn ==
    \/ \E p \in GeoPoses, x \in GeoCoords, y \in GeoCoords : call_is_ahead_of(p, x, y)
    \/ \E p \in GeoPoses, wps \in RouteFeed : call_get_closest_waypoint_idx(p, wps)

SpecFn == Init /\ [][NextFn]_vars

(* ---------------------------------------------------------------------- *)
(* Properties                                                              *)
(* ---------------------------------------------------------------------- *)

\* C1 (hold-off): while a run of cycles whose raw colour differs from the
\* colour current before the run is shorter than STATE_COUNT_THRESHOLD,
\* last_wp is what it was when the run began, every value a cycle of the
\* run publishes is that value, and that value is the one published last
\* before the run (if anything was published before).
HoldOff ==
    (run.len >= 1 /\ run.len < STATE_COUNT_THRESHOLD) =>
        /\ last_wp = run.base_wp
        /\ run.commits = 0
        /\ \A i \in 1..Len(cycle.pubs) : cycle.pubs[i] = run.base_wp
        /\ run.base_pub # None => run.base_pub = Some(run.base_wp)
        /\ lastPub \in {run.base_pub, Some(run.base_wp)}

\* a second GREEN cycle after a committed RED still publishes the RED
\* waypoint
HoldOffWitness ==
    /\ run.len = STATE_COUNT_THRESHOLD - 1
    /\ run.color = GREEN
    /\ run.base_wp >= 0
    /\ cycle.branch = "hold"
    /\ cycle.pubs = << run.base_wp >>

\* C2 (commit point): once a run that began with a change of colour has
\* STATE_COUNT_THRESHOLD cycles, the commit branch has run exactly once
\* in it.
CommitAtThreshold ==
    run.len = STATE_COUNT_THRESHOLD => run.commits = 1

\* C3 (published index valid): last_wp and every value published are -1
\* or an index into the waypoint sequence that is current.
ValidIndex(v) ==
    \/ v = -1
    \/ waypoints # None /\ v >= 0 /\ v < Len(waypoints[1])

PublishedIndexValid ==
    /\ ValidIndex(last_wp)
    /\ \A i \in 1..Len(cycle.pubs) : ValidIndex(cycle.pubs[i])

\* C4 (only RED stops): a non-negative last_wp comes with last_state RED,
\* and a commit for YELLOW, GREEN or UNKNOWN publishes -1 and stores -1.
OnlyRedStops ==
    /\ last_wp >= 0 => last_state = RED
    /\ (cycle.branch = "commit" /\ state # RED) =>
            (cycle.pubs = << -1 >> /\ last_wp = -1 /\ last_state = state)

\* a GREEN commit whose raw waypoint is an index, replacing a published
\* index by -1
OnlyRedStopsWitness ==
    /\ cycle.branch = "commit"
    /\ state = GREEN
    /\ cycle.res.wp >= 0
    /\ run.base_wp >= 0
    /\ last_wp = -1

\* C5 (one publication per cycle): a cycle that runs to its end publishes
\* exactly one integer; the cycle of a colour change sets the current
\* colour, leaves the count restarted at 0 (1 after the final increment)
\* and republishes the unchanged last_wp.
OnePublicationPerCycle ==
    (cycle.ran /\ cycle.res.raise = "none") =>
        /\ Len(cycle.pubs) = 1
        /\ cycle.branch = "change" =>
                (state = cycle.res.state /\ state_count = 1 /\ cycle.pubs = << last_wp >>)

\* C6 (no cycle raises): every call of image_cb runs to its end.
NoCycleRaises ==
    cycle.ran => cycle.res.raise = "none"

\* C7 (mismatch never reaches a cycle): no cycle indexes the light list
\* with a stop-line index outside its range.
LightIndexInRange ==
    (cycle.ran /\ cycle.res.closest >= 0) => cycle.res.closest < Len(lights)

\* C8 (end-to-end convergence): in the scenario, once more than
\* STATE_COUNT_THRESHOLD RED frames in a row were fed, the value published
\* last is 1, and no cycle of the scenario publishes 2.
ScenarioConverges ==
    /\ scen >= ScenCap => lastPub = Some(1)
    /\ scen >= 1 => \A i \in 1..Len(cycle.pubs) : cycle.pubs[i] # 2

\* the cycle that ran last got past the missing-data checks and the car's
\* waypoint lookup, and no stop line is ahead of the car's waypoint (the
\* first waypoint: the lookup only returns when no pose is known)
NoStopLineAhead ==
    /\ cycle.ran
    /\ cycle.res.raise = "none"
    /\ cycle.res.stage # "nodata"
    /\ \A k \in 1..Len(config) :
            ~is_ahead_of(waypoints[1][1], config[k][1], config[k][2])

\* C9 as stated: in a cycle with no stop line ahead the estimator returns
\* (-1, UNKNOWN) and what the cycle publishes is -1.
NoneAheadPublishesNoStop ==
    NoStopLineAhead =>
        /\ cycle.res.wp = -1 /\ cycle.res.state = UNKNOWN
        /\ \A i \in 1..Len(cycle.pubs) : cycle.pubs[i] = -1

\* C9 as amended: in a cycle with no stop line ahead the estimator returns
\* (-1, UNKNOWN) whatever the frame; the cycle publishes at most one
\* value, the stored last_wp, which is -1 if the cycle commits.
NoneAheadNeutral ==
    NoStopLineAhead =>
        /\ cycle.res.wp = -1 /\ cycle.res.state = UNKNOWN
        /\ state = UNKNOWN
        /\ cycle.pubs \in {<<>>, << last_wp >>}
        /\ cycle.branch = "commit" => cycle.pubs = << -1 >>
        /\ cycle.branch = "hold" => cycle.pubs = << last_wp >>

\* a RED frame in a cycle with no stop line ahead, held at the index
\* committed earlier
NoneAheadWitness ==
    /\ NoStopLineAhead
    /\ camera_image = Some(RED)
    /\ cycle.branch = "hold"
    /\ cycle.pubs = << last_wp >>
    /\ last_wp >= 0

\* C10 (round trip): after STATE_COUNT_THRESHOLD cycles with raw (wp, RED)
\* and then STATE_COUNT_THRESHOLD cycles with raw colour GREEN, the output
\* was wp when the RED cycles were over and is -1 now, and every value
\* published on the way was wp or -1.
RoundTrip ==
    rt.n = 2 * STATE_COUNT_THRESHOLD =>
        /\ rt.mid = Some(rt.wp)
        /\ lastPub = Some(-1)
        /\ rt.ok

\* C13 (missing-data short-circuit): a cycle run while the waypoint
\* sequence is unset or empty, or the light list is empty, returns
\* (-1, UNKNOWN) at lines 167-170: no waypoint lookup (which would raise),
\* no stop-line scan, no classification.
MissingDataShortCircuit ==
    (cycle.ran /\ (waypoints = None \/ waypoints = Some(<<>>) \/ lights = <<>>)) =>
        cycle.res = Result("none", "nodata", -1, -1, UNKNOWN)

\* a RED frame with a pose and a route but no lights: the lookup that
\* raises on this route is not run
MissingDataWitness ==
    /\ cycle.ran
    /\ lights = <<>>
    /\ waypoints = Some(R4)
    /\ pose # None
    /\ camera_image = Some(RED)
    /\ cycle.res.stage = "nodata"

\* the projection of the displacement from p to (x, y) on the heading of
\* p, in exact arithmetic (the headings of the model are +x and -x)
ExactProjection(p, x, y) == (x - p.x) * (IF p.yaw = "E" THEN 1 ELSE -1)

\* the cycle that ran last selected a stop line and scanned the waypoints
StopTargetScanned ==
    cycle.ran /\ cycle.res.raise = "none" /\ cycle.res.stage = "light"

\* light_wp (0-based) is the lowest index among the waypoints closest to
\* the stop line sl within the waypoints that have sl ahead, -1 if none has
IsFullScanResult(wps, sl, light_wp) ==
    LET Candidates == { i \in 1..Len(wps) : is_ahead_of(wps[i], sl[1], sl[2]) }
        D(i) == calculate_distance(wps[i].x, sl[1], wps[i].y, sl[2])
    IN  IF Candidates = {} THEN light_wp = -1
        ELSE /\ light_wp + 1 \in Candidates
             /\ \A j \in Candidates :
                    /\ D(light_wp + 1) <= D(j)
                    /\ D(j) = D(light_wp + 1) => light_wp + 1 <= j

StopLineChosen ==
    cycle.ran /\ cycle.res.stage \in {"light", "noneAhead"}

Recolourings(l) == [1..Len(l) -> Colors]

\* C12 (ground truth ignored): whatever colours the light observations
\* carry, the cycle that ran last gets the same result from
\* process_traffic_lights (lines 85-95 depend on the lights through this
\* result only), so two runs that differ in those colours alone take the
\* same steps and publish the same values.
GroundTruthIgnored ==
    cycle.ran =>
        \A l2 \in Recolourings(lights) :
            process_traffic_lights(pose, waypoints, l2, config, has_image, camera_image)
                = cycle.res

\* the selected light carries RED, the frame is GREEN: GREEN is committed
GroundTruthWitness ==
    /\ StopTargetScanned
    /\ lights[cycle.res.closest + 1] = RED
    /\ cycle.res.state = GREEN
    /\ cycle.branch = "commit"
    /\ cycle.pubs = << -1 >>

\* C19 (frame of the callbacks): a step of pose_cb, waypoints_cb or
\* traffic_cb (any step other than an estimation cycle) leaves state,
\* last_state, last_wp and state_count as they are.
DebounceFrame ==
    [][~cycle'.ran => UNCHANGED debounce]_vars

\* a route arrived after a RED waypoint was committed, and the filter
\* still holds it
DebounceFrameWitness ==
    /\ ~cycle.ran
    /\ waypoints = Some(<<>>)
    /\ state = RED
    /\ last_state = RED
    /\ last_wp >= 0
    /\ state_count > STATE_COUNT_THRESHOLD

\* C20 (the waypoint is not debounced): a cycle whose raw colour is the
\* current colour and that finds state_count >= STATE_COUNT_THRESHOLD
\* commits: it publishes its own raw waypoint if the colour is RED, -1
\* otherwise, and stores that value in last_wp.
CommitRepeats ==
    (/\ cycle.ran /\ cycle.res.raise = "none"
     /\ cycle.res.state = cycle.entry.state
     /\ cycle.entry.state_count >= STATE_COUNT_THRESHOLD) =>
        LET wp == IF cycle.res.state = RED THEN cycle.res.wp ELSE -1
        IN  /\ cycle.branch = "commit"
            /\ cycle.pubs = << wp >>
            /\ last_wp = wp
            /\ last_state = cycle.res.state

\* under a committed RED the raw waypoint changes, and the new one is
\* published by the cycle that sees it first
CommitRepeatsWitness ==
    /\ cycle.branch = "commit"
    /\ cycle.entry.state = RED
    /\ cycle.entry.last_wp >= 0
    /\ cycle.res.state = RED
    /\ cycle.res.wp >= 0
    /\ cycle.res.wp # cycle.entry.last_wp
    /\ cycle.pubs = << cycle.res.wp >>

\* C17 (closest waypoint): get_closest_waypoint_idx returns -1 on an empty
\* sequence, 0 on a sequence of one element, and otherwise the lowest
\* index among the waypoints closest to the pose; it does not raise.
ClosestWaypointContract ==
    fn.op = "get_closest_waypoint_idx" =>
        LET n == Len(fn.wps)
            D(i) == calculate_distance(fn.p.x, fn.wps[i].x, fn.p.y, fn.wps[i].y)
            k == fn.idx.index + 1
        IN  /\ fn.idx.raise = "none"
            /\ n = 0 => fn.idx.index = -1
            /\ n = 1 => fn.idx.index = 0
            /\ n >= 1 => /\ k \in 1..n
                         /\ \A j \in 1..n : D(k) <= D(j) /\ (D(j) = D(k) => k <= j)

ConsistentSnapshot ==
    /\ \A i, j \in 1..Len(loc.wreads) : loc.wreads[i] = loc.wreads[j]
    /\ \A i, j \in 1..Len(loc.lreads) : loc.lreads[i] = loc.lreads[j]

\* C14 (no stop target): a call that selected a stop line and found no
\* waypoint with that stop line ahead reports (-1, UNKNOWN).
NoTargetReportsUnknown ==
    (StopTargetScanned /\ cycle.res.wp = -1) => cycle.res.state = UNKNOWN

\* the ranges of the node's fields
TypeOK ==
    /\ state \in Colors /\ last_state \in Colors
    /\ last_wp \in -1..3
    /\ state_count \in 0..MaxCount
    /\ has_image \in BOOLEAN


====
